---- MODULE Spec2Model ----
(***************************************************************************)
(* Model of src/scrutiny_agent.py (NyayaDwarpal scrutiny agent): the four  *)
(* functions mock_bhashini_translate, generate_digital_dna,                *)
(* extract_text_locally, run_gatekeeper_checks and the __main__ routine.   *)
(*                                                                         *)
(* Document text, file paths and error texts are sequences of characters   *)
(* (one-character strings), so that str.lower() and the substring test     *)
(* `in` are computed character by character.  Defect messages and their    *)
(* translations are string constants; the Devanagari translations are      *)
(* written in Latin transliteration.                                       *)
(***************************************************************************)
EXTENDS Integers, Sequences, FiniteSets, TLC

\* ------------------------------------------------------------------ bounds
\* largest number of whole 4096-byte blocks in a modelled file
MaxBlocks == 2
\* largest number of pages reader.pages yields
MaxPages == 2

\* ------------------------------------------------------- character strings
\* the lowercase of each uppercase ASCII letter
AsciiLower ==
    ("A" :> "a") @@ ("B" :> "b") @@ ("C" :> "c") @@ ("D" :> "d") @@
    ("E" :> "e") @@ ("F" :> "f") @@ ("G" :> "g") @@ ("H" :> "h") @@
    ("I" :> "i") @@ ("J" :> "j") @@ ("K" :> "k") @@ ("L" :> "l") @@
    ("M" :> "m") @@ ("N" :> "n") @@ ("O" :> "o") @@ ("P" :> "p") @@
    ("Q" :> "q") @@ ("R" :> "r") @@ ("S" :> "s") @@ ("T" :> "t") @@
    ("U" :> "u") @@ ("V" :> "v") @@ ("W" :> "w") @@ ("X" :> "x") @@
    ("Y" :> "y") @@ ("Z" :> "z")

\* str.lower() on one character (ASCII letters; every other character of the
\* model's alphabet is its own lowercase)
LowerChar(c) == IF c \in DOMAIN AsciiLower THEN AsciiLower[c] ELSE c

\* s.lower()
Lower(s) == [i \in 1..Len(s) |-> LowerChar(s[i])]

\* needle in hay (Python substring containment)
Contains(hay, needle) ==
    \E i \in 0..(Len(hay) - Len(needle)) :
        SubSeq(hay, i + 1, i + Len(needle)) = needle

\* ------------------------------------ mock_bhashini_translate (lines 5-14)
MsgVakalatnama  == "Missing Vakalatnama (Power of Attorney)"
MsgCourtFee     == "Court Fee calculation not found"
MsgJurisdiction == "Jurisdiction statement missing"
MsgSignature    == "Digital Signature placeholder not detected"

\* mutant: one key of the table differs from the checker's message in case
translations_KeyTypo ==
    [lang \in {"Hindi"} |->
        (MsgVakalatnama  :> "hi: vakalatnama (mukhtarnama) gayab hai") @@
        ("Court fee calculation not found" :> "hi: court fees ki ganana nahin mili") @@
        (MsgJurisdiction :> "hi: kshetradhikar ka vivaran gayab hai") @@
        (MsgSignature    :> "hi: digital hastakshar ka sthan nahin mila")]

\* the nested dict literal of lines 6-13: language -> (message -> translation)
translations ==
    [lang \in {"Hindi"} |->
        (MsgVakalatnama  :> "hi: vakalatnama (mukhtarnama) gayab hai") @@
        (MsgCourtFee     :> "hi: court fees ki ganana nahin mili") @@
        (MsgJurisdiction :> "hi: kshetradhikar ka vivaran gayab hai") @@
        (MsgSignature    :> "hi: digital hastakshar ka sthan nahin mila")]

\* f"[Translation Pending for {text}]"
TranslationPending(text) == "[Translation Pending for " \o text \o "]"

\* d.get(key, default) for a dict modelled as a function
DictGet(d, key, default) == IF key \in DOMAIN d THEN d[key] ELSE default

\* the empty dict {}
EmptyDict == [k \in {} |-> ""]

\* mutant: an unknown language falls back to the Hindi table
mock_bhashini_translate_HindiFallback(text, target_lang) ==
    DictGet(DictGet(translations, target_lang, translations["Hindi"]), text,
            TranslationPending(text))

\* line 14: translations.get(target_lang, {}).get(text, f"[...{text}]")
mock_bhashini_translate(text, target_lang) ==
    DictGet(DictGet(translations, target_lang, EmptyDict), text,
            TranslationPending(text))

\* binding of the call's arguments to the parameters of line 5:
\* target_lang takes its default "Hindi" when the caller passes text only
BindTargetLang(args) == IF Len(args) >= 2 THEN args[2] ELSE "Hindi"

\* --------------------------------------- run_gatekeeper_checks (lines 37-48)
KwVakalatnama  == <<"V", "a", "k", "a", "l", "a", "t", "n", "a", "m", "a">>
KwCourtFee     == <<"C", "o", "u", "r", "t", " ", "F", "e", "e">>
KwJurisdiction == <<"J", "u", "r", "i", "s", "d", "i", "c", "t", "i", "o", "n">>
KwSignature    == <<"S", "i", "g", "n", "a", "t", "u", "r", "e">>

\* the dict literal of lines 39-44 in insertion order, which is the order
\* checks.items() iterates in
checks ==
    << [keyword |-> KwVakalatnama,  error |-> MsgVakalatnama],
       [keyword |-> KwCourtFee,     error |-> MsgCourtFee],
       [keyword |-> KwJurisdiction, error |-> MsgJurisdiction],
       [keyword |-> KwSignature,    error |-> MsgSignature] >>

\* mutant: the text is not lowered before the search
KeywordMissing_NoLower(keyword, extracted_text) ==
    ~ Contains(extracted_text, Lower(keyword))

\* line 46: keyword.lower() not in extracted_text.lower()
KeywordMissing(keyword, extracted_text) ==
    ~ Contains(Lower(extracted_text), Lower(keyword))

\* the loop of lines 45-47 from item i on, appending to technical_defects
RECURSIVE ChecksLoop(_, _, _)
ChecksLoop(i, extracted_text, technical_defects) ==
    IF i > Len(checks) THEN technical_defects
    ELSE ChecksLoop(i + 1, extracted_text,
            IF KeywordMissing(checks[i].keyword, extracted_text)
            THEN Append(technical_defects, checks[i].error)
            ELSE technical_defects)

\* lines 37-48: the findings dict returned
run_gatekeeper_checks(extracted_text) ==
    [technical_defects |-> ChecksLoop(1, extracted_text, <<>>)]

\* ----------------------------------------- generate_digital_dna (lines 17-22)
\* the block size of f.read(4096), line 20
BlockSize == 4096

\* lengths of the modelled files: empty, below one block, around one block
\* and an exact multiple of the block size
FileLens ==
    {0, 1, BlockSize - 1, BlockSize, BlockSize + 1, MaxBlocks * BlockSize}

\* the bytes of a file of length n (byte i is fixed by its position; 251 is
\* coprime to the block size, so no two blocks of a file are equal)
FileBytes(n) == [i \in 1..n |-> i % 251]

\* f.read(size) at position pos of a file of length n: at most size bytes,
\* b"" (the empty sequence) at end-of-file
FRead(n, pos, size) ==
    SubSeq(FileBytes(n), pos + 1, IF pos + size < n THEN pos + size ELSE n)

\* mutant: a block shorter than the block size is taken for end-of-file and
\* not fed
Sha256Update_DropShort(msg, byte_block) ==
    IF Len(byte_block) < BlockSize THEN msg ELSE msg \o byte_block

\* sha256_hash.update(byte_block): the accumulator's value is determined by
\* the message fed so far, which is what the model keeps
Sha256Update(msg, byte_block) == msg \o byte_block

\* stand-in for the SHA-256 compression: a 15-bit polynomial hash of the
\* message, computed by halving so that H(a \o b) = H(a)*B^|b| + H(b)
HashMod == 32749
HashBase == 263

RECURSIVE PowMod(_)
PowMod(k) ==
    IF k = 0 THEN 1
    ELSE LET h == PowMod(k \div 2)
             sq == (h * h) % HashMod
         IN  IF k % 2 = 1 THEN (sq * HashBase) % HashMod ELSE sq

RECURSIVE PolyHash(_, _, _)
PolyHash(msg, lo, hi) ==
    IF lo > hi THEN 0
    ELSE IF lo = hi THEN (msg[lo] + 1) % HashMod
    ELSE LET mid == (lo + hi) \div 2
         IN  (PolyHash(msg, lo, mid) * PowMod(hi - mid)
              + PolyHash(msg, mid + 1, hi)) % HashMod

\* sha256_hash.hexdigest(), line 22: a function of the message alone
Sha256Hex(msg) == [sha256 |-> PolyHash(msg, 1, Len(msg)), bits |-> 8 * Len(msg)]

\* -------------------------------------- extract_text_locally (lines 25-34)
\* the path constant of line 53
test_pdf == <<"p", "e", "r", "f", "e", "c", "t", "_", "t", "e", "s", "t", ".", "p", "d", "f">>

\* paths a caller may pass to extract_text_locally
Paths ==
    { test_pdf,
      <<"s", "i", "g", "n", "a", "t", "u", "r", "e", ".", "p", "d", "f">>,
      <<"V", "a", "k", "a", "l", "a", "t", "n", "a", "m", "a", " ", "C", "o", "u", "r", "t", " ", "F", "e", "e", ".", "p", "d", "f">> }

\* the ways open() fails: file missing, permission denied
OpenErrnos == {"ENOENT", "EACCES"}

\* str(e) of the OSError open() raises: "[Errno n] <strerror>: '<path>'"
OpenErrText(errno, path) ==
    (IF errno = "ENOENT"
     THEN <<"[", "E", "r", "r", "n", "o", " ", "2", "]", " ", "N", "o", " ", "s", "u", "c", "h", " ", "f", "i", "l", "e", " ", "o", "r", " ", "d", "i", "r", "e", "c", "t", "o", "r", "y", ":", " ">>
     ELSE <<"[", "E", "r", "r", "n", "o", " ", "1", "3", "]", " ", "P", "e", "r", "m", "i", "s", "s", "i", "o", "n", " ", "d", "e", "n", "i", "e", "d", ":", " ">>)
    \o <<"'">> \o path \o <<"'">>

\* str(e) of errors raised by PyPDF2.PdfReader(file) and page.extract_text()
LibErrTexts ==
    { <<"E", "O", "F", " ", "m", "a", "r", "k", "e", "r", " ", "n", "o", "t", " ", "f", "o", "u", "n", "d">>,
      <<"C", "a", "n", "n", "o", "t", " ", "r", "e", "a", "d", " ", "a", "n", " ", "e", "m", "p", "t", "y", " ", "f", "i", "l", "e">> }

\* values page.extract_text() returns
PageTexts ==
    { <<>>,
      <<"V", "A", "K", "A", "L", "A", "T", "N", "A", "M", "A", " ", "C", "o", "u", "r", "t", " ", "F", "e", "e">>,
      <<"j", "u", "r", "i", "s", "d", "i", "c", "t", "i", "o", "n", " ", "s", "i", "g", "n", "a", "t", "u", "r", "e">>,
      <<"V", "a", "k", "a", "l", "a", "t">>,
      <<"n", "a", "m", "a">>,
      <<"c", "o", "u", "r", "t">>,
      <<" ", "F", "E", "E">>,
      <<"J", "u", "R", "i", "S", "d", "I", "c", "T", "i", "O", "n">>,
      <<"S", "I", "G", "N", "A", "T", "U", "R", "E">> }

\* mutant: the error's text is returned without the prefix
ErrorReadingFile_NoPrefix(err) == err

\* f"Error reading file: {e}", line 34
ErrorReadingFile(err) ==
    <<"E", "r", "r", "o", "r", " ", "r", "e", "a", "d", "i", "n", "g", " ", "f", "i", "l", "e", ":", " ">> \o err

\* ------------------------------------------------------------------- state
VARIABLES
    pc,           \* position of the running code
    file,         \* length of the document on disk (its bytes: FileBytes)
    pdf_path,     \* the path argument of the function being run
    handles,      \* number of open file handles of the process
    f_pos,        \* read position of the handle opened by generate_digital_dna
    sha256_hash,  \* message fed to the accumulator of generate_digital_dna
    updates,      \* history: length of each byte_block passed to update()
    dna,          \* __main__'s dna
    pages_left,   \* pages of reader.pages not yet iterated
    text,         \* extract_text_locally's text
    e,            \* the exception text caught at line 33
    content,      \* __main__'s content
    results,      \* __main__'s results
    di,           \* index of the for loop of line 69
    hindi_msg,    \* __main__'s hindi_msg
    calls,        \* history: arguments of each mock_bhashini_translate call
    out,          \* standard output: one entry per print() call
    exc           \* the uncaught exception that ended the run

vars == <<pc, file, pdf_path, handles, f_pos, sha256_hash, updates, dna,
          pages_left, text, e, content, results, di, hindi_msg, calls, out, exc>>

\* values of variables not yet assigned: None for the strings hindi_msg and
\* exc, NoText for the character sequences pdf_path, e and content, NoDna
\* for dna, NoResults for results
None == "None"
NoText == <<"None">>
NoDna == [sha256 |-> -1, bits |-> -1]
NoResults == [technical_defects |-> <<"None">>]

dnaVars  == <<f_pos, sha256_hash, updates, dna>>
extVars  == <<pages_left, text, e, content>>
mainVars == <<results, di, hindi_msg, calls, out>>

\* state of the process before line 56 runs
Init ==
    /\ pc = "start"
    /\ file \in FileLens
    /\ pdf_path = NoText
    /\ handles = 0
    /\ f_pos = 0
    /\ sha256_hash = <<>>
    /\ updates = <<>>
    /\ dna = NoDna
    /\ pages_left = 0
    /\ text = <<>>
    /\ e = NoText
    /\ content = NoText
    /\ results = NoResults
    /\ di = 0
    /\ hindi_msg = None
    /\ calls = <<>>
    /\ out = <<>>
    /\ exc = None

\* ----------------------------------------- generate_digital_dna, by steps
\* line 56 calls generate_digital_dna(test_pdf); line 18 makes the accumulator
DnaEnter ==
    /\ pc = "start"
    /\ pdf_path' = test_pdf
    /\ sha256_hash' = <<>>
    /\ pc' = "dna_open"
    /\ UNCHANGED <<file, handles, f_pos, updates, dna, extVars, mainVars, exc>>

\* line 19: open(pdf_path, "rb") succeeds
DnaOpenOk ==
    /\ pc = "dna_open"
    /\ handles' = handles + 1
    /\ f_pos' = 0
    /\ pc' = "dna_loop"
    /\ UNCHANGED <<file, pdf_path, sha256_hash, updates, dna, extVars, mainVars, exc>>

\* mutant: the open failure is swallowed and the run goes on
DnaOpenFail_Swallowed ==
    /\ pc = "dna_open"
    /\ \E errno \in OpenErrnos : exc' = errno
    /\ pc' = "print_dna"
    /\ UNCHANGED <<file, pdf_path, handles, dnaVars, extVars, mainVars>>

\* line 19: open raises; nothing catches it (lines 17-22, 56), the run ends
DnaOpenFail ==
    /\ pc = "dna_open"
    /\ \E errno \in OpenErrnos : exc' = errno
    /\ pc' = "crashed"
    /\ UNCHANGED <<file, pdf_path, handles, dnaVars, extVars, mainVars>>

\* lines 20-21: f.read(4096) returns a non-empty block, which is fed
DnaUpdate ==
    /\ pc = "dna_loop"
    /\ LET byte_block == FRead(file, f_pos, BlockSize)
       IN  /\ byte_block # <<>>
           /\ sha256_hash' = Sha256Update(sha256_hash, byte_block)
           /\ updates' = Append(updates, Len(byte_block))
           /\ f_pos' = f_pos + Len(byte_block)
    /\ UNCHANGED <<pc, file, pdf_path, handles, dna, extVars, mainVars, exc>>

\* line 20: f.read raises an I/O error; the with block closes the handle and
\* the error leaves generate_digital_dna and __main__
DnaReadFail ==
    /\ pc = "dna_loop"
    /\ handles' = handles - 1
    /\ exc' = "EIO"
    /\ pc' = "crashed"
    /\ UNCHANGED <<file, pdf_path, dnaVars, extVars, mainVars>>

\* lines 20-22: f.read returns b"", the loop ends, the with block closes the
\* handle and the digest is returned into dna (line 56)
DnaReturn ==
    /\ pc = "dna_loop"
    /\ FRead(file, f_pos, BlockSize) = <<>>
    /\ handles' = handles - 1
    /\ dna' = Sha256Hex(sha256_hash)
    /\ sha256_hash' = <<>>
    /\ pc' = "print_dna"
    /\ UNCHANGED <<file, pdf_path, f_pos, updates, extVars, mainVars, exc>>

\* line 57
PrintDna ==
    /\ pc = "print_dna"
    /\ out' = Append(out, [line |-> "Digital DNA (Hash): ", arg |-> dna])
    /\ pc' = "print_status"
    /\ UNCHANGED <<file, pdf_path, handles, dnaVars, extVars, results, di, hindi_msg, calls, exc>>

\* lines 60-61: the status line, then the call extract_text_locally(test_pdf)
PrintStatus ==
    /\ pc = "print_status"
    /\ out' = Append(out, [line |-> "NyayaDwarpal is scrutinizing: ", arg |-> test_pdf])
    /\ pdf_path' = test_pdf
    /\ pc' = "ext_open"
    /\ UNCHANGED <<file, handles, dnaVars, extVars, results, di, hindi_msg, calls, exc>>

\* ----------------------------------------- extract_text_locally, by steps
\* line 27: open(pdf_path, 'rb') succeeds
ExtOpenOk ==
    /\ pc = "ext_open"
    /\ handles' = handles + 1
    /\ pc' = "ext_reader"
    /\ UNCHANGED <<file, pdf_path, dnaVars, extVars, mainVars, exc>>

\* line 27 raises; lines 33-34 catch it and return the diagnostic string,
\* which line 61 stores in content
ExtOpenFail ==
    /\ pc = "ext_open"
    /\ \E errno \in OpenErrnos : e' = OpenErrText(errno, pdf_path)
    /\ content' = ErrorReadingFile(e')
    /\ pc' = "checks"
    /\ UNCHANGED <<file, pdf_path, handles, dnaVars, pages_left, text, mainVars, exc>>

\* lines 28-29: the reader is built over the open file; text = ""
ExtReaderOk ==
    /\ pc = "ext_reader"
    /\ \E n \in 0..MaxPages : pages_left' = n
    /\ text' = <<>>
    /\ pc' = "ext_pages"
    /\ UNCHANGED <<file, pdf_path, handles, dnaVars, e, content, mainVars, exc>>

\* line 28 raises; the with block closes the handle, lines 33-34 return the
\* diagnostic string
ExtReaderFail ==
    /\ pc = "ext_reader"
    /\ e' \in LibErrTexts
    /\ content' = ErrorReadingFile(e')
    /\ handles' = handles - 1
    /\ pc' = "checks"
    /\ UNCHANGED <<file, pdf_path, dnaVars, pages_left, text, mainVars, exc>>

\* lines 30-31: one page's text is appended
ExtPageOk ==
    /\ pc = "ext_pages"
    /\ pages_left > 0
    /\ \E t \in PageTexts : text' = text \o t
    /\ pages_left' = pages_left - 1
    /\ UNCHANGED <<pc, file, pdf_path, handles, dnaVars, e, content, mainVars, exc>>

\* mutant: the file is opened without a with block, so the handle stays
\* open when a page raises
ExtPageFail_HandleLeak ==
    /\ pc = "ext_pages"
    /\ pages_left > 0
    /\ e' \in LibErrTexts
    /\ content' = <<"E", "r", "r", "o", "r", " ", "r", "e", "a", "d", "i", "n", "g", " ", "f", "i", "l", "e", ":", " ">> \o e'
    /\ pc' = "checks"
    /\ UNCHANGED <<file, pdf_path, handles, dnaVars, pages_left, text, mainVars, exc>>

\* mutant: the error of a page is not caught and ends the run
ExtPageFail_Propagates ==
    /\ pc = "ext_pages"
    /\ pages_left > 0
    /\ e' \in LibErrTexts
    /\ exc' = "PdfReadError"
    /\ handles' = handles - 1
    /\ pc' = "crashed"
    /\ UNCHANGED <<file, pdf_path, dnaVars, pages_left, text, content, mainVars>>

\* lines 30-31 raise (page access, extract_text or the concatenation); the
\* with block closes the handle, lines 33-34 return the diagnostic string
ExtPageFail ==
    /\ pc = "ext_pages"
    /\ pages_left > 0
    /\ e' \in LibErrTexts
    /\ content' = ErrorReadingFile(e')
    /\ handles' = handles - 1
    /\ pc' = "checks"
    /\ UNCHANGED <<file, pdf_path, dnaVars, pages_left, text, mainVars, exc>>

\* line 32: the pages are exhausted; return text closes the handle
ExtReturn ==
    /\ pc = "ext_pages"
    /\ pages_left = 0
    /\ content' = text
    /\ handles' = handles - 1
    /\ pc' = "checks"
    /\ UNCHANGED <<file, pdf_path, dnaVars, pages_left, text, e, mainVars, exc>>

\* ----------------------------------------------------- __main__ (62-72)
\* line 62
RunChecks ==
    /\ pc = "checks"
    /\ results' = run_gatekeeper_checks(content)
    /\ pc' = "report"
    /\ UNCHANGED <<file, pdf_path, handles, dnaVars, extVars, di, hindi_msg, calls, out, exc>>

\* lines 65-66
PrintSuccess ==
    /\ pc = "report"
    /\ results.technical_defects = <<>>
    /\ out' = Append(out, [line |-> "SUCCESS: Document is 'Hearing-Ready'!", arg |-> None])
    /\ pc' = "done"
    /\ UNCHANGED <<file, pdf_path, handles, dnaVars, extVars, results, di, hindi_msg, calls, exc>>

\* lines 67-68 (the printed string starts with a newline)
PrintHeader ==
    /\ pc = "report"
    /\ results.technical_defects # <<>>
    /\ out' = Append(out, [line |-> "\nDEFECTS FOUND (Procedural Scrutiny):", arg |-> None])
    /\ di' = 1
    /\ pc' = "loop"
    /\ UNCHANGED <<file, pdf_path, handles, dnaVars, extVars, results, hindi_msg, calls, exc>>

\* lines 69-70: the next defect is taken and translated
LoopTranslate ==
    /\ pc = "loop"
    /\ di <= Len(results.technical_defects)
    /\ LET defect == results.technical_defects[di]
           args == <<defect, "Hindi">>
       IN  /\ calls' = Append(calls, args)
           /\ hindi_msg' = mock_bhashini_translate(args[1], BindTargetLang(args))
    /\ pc' = "loop_print"
    /\ UNCHANGED <<file, pdf_path, handles, dnaVars, extVars, results, di, out, exc>>

\* mutant: the localized line is printed before the message line
LoopPrint_HindiFirst ==
    /\ pc = "loop_print"
    /\ out' = out \o << [line |-> "    (Hindi): ", arg |-> hindi_msg],
                        [line |-> "  - ", arg |-> results.technical_defects[di]] >>
    /\ di' = di + 1
    /\ pc' = "loop"
    /\ UNCHANGED <<file, pdf_path, handles, dnaVars, extVars, results, hindi_msg, calls, exc>>

\* lines 71-72
LoopPrint ==
    /\ pc = "loop_print"
    /\ out' = out \o << [line |-> "  - ", arg |-> results.technical_defects[di]],
                        [line |-> "    (Hindi): ", arg |-> hindi_msg] >>
    /\ di' = di + 1
    /\ pc' = "loop"
    /\ UNCHANGED <<file, pdf_path, handles, dnaVars, extVars, results, hindi_msg, calls, exc>>

\* mutant: the loop may end one defect early
LoopExit_OneEarly ==
    /\ pc = "loop"
    /\ di >= Len(results.technical_defects)
    /\ pc' = "done"
    /\ UNCHANGED <<file, pdf_path, handles, dnaVars, extVars, mainVars, exc>>

\* line 69: the defects are exhausted, the script ends
LoopExit ==
    /\ pc = "loop"
    /\ di > Len(results.technical_defects)
    /\ pc' = "done"
    /\ UNCHANGED <<file, pdf_path, handles, dnaVars, extVars, mainVars, exc>>

Next ==
    \/ DnaEnter \/ DnaOpenOk \/ DnaOpenFail \/ DnaUpdate \/ DnaReadFail
    \/ DnaReturn \/ PrintDna \/ PrintStatus
    \/ ExtOpenOk \/ ExtOpenFail \/ ExtReaderOk \/ ExtReaderFail
    \/ ExtPageOk \/ ExtPageFail \/ ExtReturn
    \/ RunChecks \/ PrintSuccess \/ PrintHeader
    \/ LoopTranslate \/ LoopPrint \/ LoopExit

Spec == Init /\ [][Next]_vars

\* ------------------------------------------- the functions called directly
\* message strings passed to mock_bhashini_translate by a caller
TranslateTexts ==
    { MsgVakalatnama, MsgCourtFee, MsgJurisdiction, MsgSignature,
      "", "missing vakalatnama (power of attorney)", "Court Fee",
      "hi: court fees ki ganana nahin mili" }

\* language identifiers passed by a caller
Langs == {"Hindi", "hindi", "HINDI", "Tamil", "English", ""}

\* a caller runs extract_text_locally(pdf_path) and passes the returned
\* string to run_gatekeeper_checks, or calls mock_bhashini_translate
InitCalls ==
    /\ \/ pc = "ext_open" /\ pdf_path \in Paths
       \/ pc = "call_translate" /\ pdf_path = NoText
    /\ file \in FileLens
    /\ handles = 0
    /\ f_pos = 0
    /\ sha256_hash = <<>>
    /\ updates = <<>>
    /\ dna = NoDna
    /\ pages_left = 0
    /\ text = <<>>
    /\ e = NoText
    /\ content = NoText
    /\ results = NoResults
    /\ di = 0
    /\ hindi_msg = None
    /\ calls = <<>>
    /\ out = <<>>
    /\ exc = None

\* mock_bhashini_translate(text) or mock_bhashini_translate(text, lang)
CallTranslate ==
    /\ pc = "call_translate"
    /\ \E t \in TranslateTexts :
         \E args \in {<<t>>} \cup {<<t, lang>> : lang \in Langs} :
            /\ calls' = Append(calls, args)
            /\ hindi_msg' = mock_bhashini_translate(args[1], BindTargetLang(args))
    /\ pc' = "call_done"
    /\ UNCHANGED <<file, pdf_path, handles, dnaVars, extVars, results, di, out, exc>>

NextCalls ==
    \/ ExtOpenOk \/ ExtOpenFail \/ ExtReaderOk \/ ExtReaderFail
    \/ ExtPageOk \/ ExtPageFail \/ ExtReturn
    \/ RunChecks \/ CallTranslate

SpecCalls == InitCalls /\ [][NextCalls]_vars

\* ================================================================= claims
\* the positions of __main__ after line 62 has stored results
AfterChecks == {"report", "loop", "loop_print", "done"}

\* two characters equal up to letter case
EqIgnoreCase(a, b) == LowerChar(a) = LowerChar(b)

\* kw occurs in txt at some offset, compared character by character
\* ignoring case
OccursIgnoreCase(kw, txt) ==
    \E off \in 0..(Len(txt) - Len(kw)) :
        \A j \in 1..Len(kw) : EqIgnoreCase(txt[off + j], kw[j])

\* the keyword table in the order Vakalatnama, Court Fee, Jurisdiction,
\* Signature, with the message of each
DefectTable ==
    << <<KwVakalatnama, MsgVakalatnama>>, <<KwCourtFee, MsgCourtFee>>,
       <<KwJurisdiction, MsgJurisdiction>>, <<KwSignature, MsgSignature>> >>

\* the messages of the table's keywords absent from txt, in table order
AbsentMessages(txt) ==
    LET Absent(row) == ~ OccursIgnoreCase(row[1], txt)
        rows == SelectSeq(DefectTable, Absent)
    IN  [i \in 1..Len(rows) |-> rows[i][2]]

AllFourMessages == <<MsgVakalatnama, MsgCourtFee, MsgJurisdiction, MsgSignature>>

\* C1: for every text, run_gatekeeper_checks returns exactly the messages of
\* the keywords that are not a case-insensitive substring of the text, in
\* table order, each at most once; the empty text yields all four, and a
\* text with 'jurisdiction' and 'signature' but neither 'vakalatnama' nor
\* 'court fee' yields exactly the first two.
C1_ChecksExact ==
    pc \in AfterChecks =>
        /\ results.technical_defects = AbsentMessages(content)
        /\ content = <<>> => results.technical_defects = AllFourMessages
        /\ ( /\ OccursIgnoreCase(KwJurisdiction, content)
             /\ OccursIgnoreCase(KwSignature, content)
             /\ ~ OccursIgnoreCase(KwVakalatnama, content)
             /\ ~ OccursIgnoreCase(KwCourtFee, content) )
           => results.technical_defects = <<MsgVakalatnama, MsgCourtFee>>

\* a mixed-case text holding 'jurisdiction' and 'signature' only was checked
C1_Witness ==
    /\ pc = "report"
    /\ content # Lower(content)
    /\ OccursIgnoreCase(KwJurisdiction, content)
    /\ OccursIgnoreCase(KwSignature, content)
    /\ results.technical_defects = <<MsgVakalatnama, MsgCourtFee>>

\* C2 as claimed: whenever extraction fails and the diagnostic string is
\* passed to run_gatekeeper_checks, all four defects are reported.
C2_AllFourOnError ==
    (pc = "report" /\ e # NoText) => results.technical_defects = AllFourMessages

\* C2 amended: the diagnostic string is 'Error reading file: ' followed by
\* the error's text, and the check on it reports exactly the keywords absent
\* from the error's text: all four when the error text holds none of them.
C2_ErrorTextDecides ==
    (pc = "report" /\ e # NoText) =>
        /\ content = <<"E", "r", "r", "o", "r", " ", "r", "e", "a", "d", "i", "n", "g", " ", "f", "i", "l", "e", ":", " ">> \o e
        /\ results.technical_defects = AbsentMessages(e)
        /\ (\A i \in 1..Len(DefectTable) : ~ OccursIgnoreCase(DefectTable[i][1], e))
              => results.technical_defects = AllFourMessages

\* the open of a path naming a keyword failed and the check found the keyword
C2_Witness ==
    /\ pc = "report"
    /\ e # NoText
    /\ OccursIgnoreCase(KwSignature, e)
    /\ results.technical_defects = <<MsgVakalatnama, MsgCourtFee, MsgJurisdiction>>

\* content starts with 'Error reading file: '
IsDiagnostic(str) ==
    /\ Len(str) >= 20
    /\ SubSeq(str, 1, 20) = <<"E", "r", "r", "o", "r", " ", "r", "e", "a", "d", "i", "n", "g", " ", "f", "i", "l", "e", ":", " ">>

\* the run has printed its success line or its defects header
Reported ==
    /\ results # NoResults
    /\ \E i \in 1..Len(out) :
          out[i].line \in {"SUCCESS: Document is 'Hearing-Ready'!",
                           "\nDEFECTS FOUND (Procedural Scrutiny):"}

\* how far the run has got: the position in the script, and within a loop
\* the bytes read, the pages iterated or the defects handled
PcRank ==
    CASE pc = "start" -> 0
      [] pc = "dna_open" -> 1
      [] pc = "dna_loop" -> 2
      [] pc = "print_dna" -> 3
      [] pc = "print_status" -> 4
      [] pc = "ext_open" -> 5
      [] pc = "ext_reader" -> 6
      [] pc = "ext_pages" -> 7
      [] pc = "checks" -> 8
      [] pc = "report" -> 9
      [] pc \in {"loop", "loop_print"} -> 10
      [] OTHER -> 11

LoopRank ==
    CASE pc = "dna_loop" -> f_pos
      [] pc = "ext_pages" -> MaxPages - pages_left
      [] pc = "loop" -> 2 * di
      [] pc = "loop_print" -> 2 * di + 1
      [] OTHER -> 0

\* C3: extract_text_locally never propagates an error: a failure of the
\* open, of the reader, or of a page leaves a string beginning 'Error
\* reading file: ' in place of the text, and every run whose hashing
\* succeeded runs the checks and reaches the reporting stage: once the
\* digest is there the run never ends on an exception, it can stop only at
\* the end of the script with the report printed, and every step takes it
\* further.
C3_ExtractNeverRaises ==
    /\ [](dna # NoDna => exc = None /\ pc # "crashed")
    /\ []((e # NoText /\ pc \in AfterChecks \cup {"checks"}) => IsDiagnostic(content))
    /\ []((dna # NoDna /\ pc # "done") => ENABLED Next)
    /\ [](pc = "done" => Reported /\ LoopRank <= 2 * Len(results.technical_defects) + 2)
    /\ [][ PcRank' > PcRank \/ (PcRank' = PcRank /\ LoopRank' > LoopRank) ]_vars

\* a run whose extraction failed reached the end of the script
C3_Witness == pc = "done" /\ e # NoText /\ dna # NoDna /\ Reported

\* C4: an open or read failure during hashing is not caught: it ends the run
\* before any output line, before extraction, checks and localization.
C4_HashFailureFatal ==
    /\ pc = "dna_open" => ENABLED DnaOpenFail
    /\ exc # None <=> pc = "crashed"
    /\ pc = "crashed" =>
          /\ exc \in OpenErrnos \cup {"EIO"}
          /\ ~ ENABLED Next
          /\ out = <<>>
          /\ dna = NoDna
          /\ e = NoText /\ content = NoText /\ text = <<>>
          /\ results = NoResults
          /\ calls = <<>> /\ hindi_msg = None

\* the open of line 19 failed on a missing file
C4_Witness == pc = "crashed" /\ exc = "ENOENT" /\ out = <<>>

\* the language the last call's target_lang parameter is bound to
LastLang == IF Len(calls[Len(calls)]) = 2 THEN calls[Len(calls)][2] ELSE "Hindi"

\* C5: mock_bhashini_translate is total: the pre-authored string exactly
\* when the (language, message) pair is in the table, otherwise
\* '[Translation Pending for <message>]'; an unknown language with a known
\* message gives the placeholder; the language defaults to Hindi.
C5_TranslateTotal ==
    pc = "call_done" =>
        LET msg == calls[Len(calls)][1]
        IN  /\ hindi_msg # None
            /\ IF LastLang = "Hindi" /\ msg \in {MsgVakalatnama, MsgCourtFee, MsgJurisdiction, MsgSignature}
               THEN hindi_msg = translations["Hindi"][msg]
               ELSE hindi_msg = "[Translation Pending for " \o msg \o "]"

\* a known defect message was localized for an unsupported language
C5_Witness ==
    /\ pc = "call_done"
    /\ calls[Len(calls)] = <<MsgCourtFee, "Tamil">>
    /\ hindi_msg = "[Translation Pending for Court Fee calculation not found]"

\* the entries of out written by print() calls of the given kind
LineIdx(kind) == {i \in 1..Len(out) : out[i].line = kind}

DnaLine     == "Digital DNA (Hash): "
StatusLine  == "NyayaDwarpal is scrutinizing: "
SuccessLine == "SUCCESS: Document is 'Hearing-Ready'!"
HeaderLine  == "\nDEFECTS FOUND (Procedural Scrutiny):"
DefectLine  == "  - "
HindiLine   == "    (Hindi): "

\* C6: a completed run has printed the digest line, then the status line,
\* then either exactly one success line and nothing more, or one defects
\* header followed, per defect in checker order, by the message line and
\* right after it its localized line; success line and header never both
\* appear and no defect line precedes the digest or status line.
C6_OutputOrder ==
    /\ LineIdx(SuccessLine) = {} \/ LineIdx(HeaderLine) = {}
    /\ \A i \in LineIdx(DefectLine) \cup LineIdx(HindiLine) :
          /\ i > 3
          /\ out[1].line = DnaLine /\ out[2].line = StatusLine
          /\ out[3].line = HeaderLine
    /\ pc = "done" =>
          LET defects == results.technical_defects
          IN  /\ Len(out) >= 3
              /\ out[1] = [line |-> DnaLine, arg |-> dna]
              /\ out[2] = [line |-> StatusLine, arg |-> test_pdf]
              /\ IF defects = <<>>
                 THEN /\ Len(out) = 3
                      /\ out[3].line = SuccessLine
                 ELSE /\ out[3].line = HeaderLine
                      /\ Len(out) = 3 + 2 * Len(defects)
                      /\ \A k \in 1..Len(defects) :
                            /\ out[2 + 2 * k] = [line |-> DefectLine, arg |-> defects[k]]
                            /\ out[3 + 2 * k].line = HindiLine
                            /\ out[3 + 2 * k].arg = mock_bhashini_translate(defects[k], "Hindi")

\* a run with three defects has completed
C6_Witness ==
    /\ pc = "done"
    /\ Len(results.technical_defects) = 3
    /\ Len(out) = 9

\* C7: the localizer is called exactly once per defect, in the checker's
\* order and only after the checks have completed; when the text holds all
\* four keywords there are no defects, the success line is printed and the
\* localizer is never called.
C7_LocalizerCalls ==
    /\ calls # <<>> => pc \in {"loop", "loop_print", "done"} /\ results # NoResults
    /\ pc \in AfterChecks =>
          /\ Len(calls) <= Len(results.technical_defects)
          /\ \A i \in 1..Len(calls) : calls[i] = <<results.technical_defects[i], "Hindi">>
    /\ pc = "done" =>
          /\ Len(calls) = Len(results.technical_defects)
          /\ (\A i \in 1..Len(DefectTable) : OccursIgnoreCase(DefectTable[i][1], content))
               => /\ results.technical_defects = <<>>
                  /\ calls = <<>>
                  /\ LineIdx(SuccessLine) = {3}

\* a run with two defects has completed with two localizer calls
C7_Witness ==
    /\ pc = "done"
    /\ Len(results.technical_defects) = 2
    /\ Len(calls) = 2

\* positions at which a function holds the document open
HandleHeld == {"dna_loop", "ext_reader", "ext_pages"}

\* C8: the file handle is acquired only inside the hashing and inside the
\* extraction, and released when that operation finishes or fails: no
\* handle is open at any operation boundary, and never more than one.
C8_HandleScoped ==
    /\ handles \in {0, 1}
    /\ handles = 1 <=> pc \in HandleHeld

\* the extraction failed after its open and the handle is released
C8_Witness ==
    /\ pc = "checks"
    /\ e \in LibErrTexts
    /\ handles = 0

RECURSIVE SumSeq(_)
SumSeq(q) == IF q = <<>> THEN 0 ELSE Head(q) + SumSeq(Tail(q))

\* every block fed is a whole block, except a shorter last one that ends at
\* end-of-file
BlocksWhole ==
    \A i \in 1..Len(updates) :
        \/ updates[i] = BlockSize
        \/ i = Len(updates) /\ f_pos = file /\ updates[i] \in 1..(BlockSize - 1)

\* C9: for a readable file of any length the loop ends at end-of-file having
\* fed blocks whose concatenation is exactly the file's bytes; the digest is
\* that of the file's contents, and an empty file feeds no block and yields
\* the empty-input digest.
C9_HashStreamsWholeFile ==
    /\ pc = "dna_loop" =>
          /\ f_pos <= file
          /\ sha256_hash = SubSeq(FileBytes(file), 1, f_pos)
          /\ SumSeq(updates) = f_pos
          /\ BlocksWhole
    /\ pc = "print_dna" =>
          /\ f_pos = file
          /\ SumSeq(updates) = file
          /\ BlocksWhole
          /\ dna = Sha256Hex(FileBytes(file))
          /\ file = 0 => updates = <<>> /\ dna = Sha256Hex(<<>>)

\* a file of one block and one byte more was hashed in two blocks
C9_Witness ==
    /\ pc = "print_dna"
    /\ file = BlockSize + 1
    /\ updates = <<BlockSize, 1>>

\* the pre-authored Hindi strings
HindiStrings == {translations["Hindi"][m] : m \in DOMAIN translations["Hindi"]}

\* C10: every defect message the checker can produce is a key of the Hindi
\* table, so every localized line of a run is a pre-authored Hindi string
\* and the placeholder is never emitted.
C10_NoPlaceholder ==
    /\ pc \in AfterChecks =>
          \A i \in 1..Len(results.technical_defects) :
              results.technical_defects[i] \in DOMAIN translations["Hindi"]
    /\ hindi_msg # None =>
          /\ hindi_msg \in HindiStrings
          /\ hindi_msg # "[Translation Pending for " \o calls[Len(calls)][1] \o "]"
    /\ \A i \in LineIdx(HindiLine) : out[i].arg \in HindiStrings

\* all four defects were localized and the last Hindi line printed
C10_Witness ==
    /\ pc = "done"
    /\ Len(calls) = 4
    /\ out[Len(out)].line = HindiLine
    /\ out[Len(out)].arg = translations["Hindi"][MsgSignature]

====
